---- MODULE Spec2Model ----
(***************************************************************************)
(* Model of the opportunity-hierarchy table components.                    *)
(*                                                                         *)
(* src/XLP_POC_AccOppHierarchyTable.js holds two variants of the paginated *)
(* table: the configurable one (lines 1-291, refreshApex after a save) and *)
(* the forced-reload one (lines 293-407, window.location.reload after a    *)
(* save).  src/XLP_POC_AccountHierarchyOpportunities.js holds the table     *)
(* without pagination.  The variable `variant` selects which component an  *)
(* instance is.                                                            *)
(***************************************************************************)
EXTENDS Integers, Sequences, FiniteSets, TLC

\* ---------------------------------------------------------------- bounds
MaxRecords == 25        \* largest record set the read collaborator returns
MaxOver == 1            \* how far handleNext may run past totalPages
MaxUnder == 2           \* how far handlePrev may run below page 1
MaxSaves == 2           \* handleSave invocations that may be in flight
MaxLoads == 1           \* wire read requests that may be in flight
MaxDrafts == 2          \* records (the first ones) that may carry a draft
MaxPageSize == 12       \* page sizes of the pure pagination specification
MaxMessages == 2        \* sub-errors in the body of an error value
MaxPieces == 3          \* tokens and separators a column spec is made of

\* ------------------------------------------------------ program constants
DefaultPageSize == 10

Configurable == "configurable"
ForcedReload == "forcedReload"
Variants == {Configurable, ForcedReload}
Hierarchy == "hierarchy"
Components == Variants \cup {Hierarchy}

\* ------------------------------------------------------------- JS values
Null == "<null>"
Undefined == "<undefined>"
NoObject == [undefined |-> TRUE]

Truthy(v) == v \notin {Null, Undefined, ""}

Max(a, b) == IF a >= b THEN a ELSE b
Min(a, b) == IF a <= b THEN a ELSE b

\* Array.prototype.slice(start, end): negative indexes count from the end.
RelIndex(i, len) == IF i < 0 THEN Max(len + i, 0) ELSE Min(i, len)

slice(s, start, end) ==
    LET k == RelIndex(start, Len(s))
        final == RelIndex(end, Len(s))
    IN  IF k >= final THEN <<>> ELSE SubSeq(s, k + 1, final)

\* Array.prototype.join(", ") over message strings; undefined joins as "".
RECURSIVE join(_)
join(msgs) ==
    IF msgs = <<>> THEN ""
    ELSE LET h == IF Head(msgs) \in {Null, Undefined} THEN "" ELSE Head(msgs)
         IN  IF Len(msgs) = 1 THEN h ELSE h \o ", " \o join(Tail(msgs))

\* Math.ceil(a / b) for a >= 0, b > 0.
ceil(a, b) == (a + b - 1) \div b

\* ------------------------------------------------- read collaborator data
\* A raw opportunity as returned by getHierarchyOpportunities.  Relationship
\* fields are present on some records and missing on others.
Opp(i) ==
    [ Id |-> ToString(i),
      XLP_BrokerName__c |-> IF i % 2 = 1 THEN "b" \o ToString(i) ELSE Undefined,
      XLP_BrokerName__r |-> IF i % 2 = 1 THEN [Name |-> "Broker"] ELSE NoObject,
      XLP_ClientName__c |-> IF i % 3 = 1 THEN "c" \o ToString(i) ELSE Undefined,
      XLP_ClientName__r |-> IF i % 3 = 1 THEN [Name |-> "Client"] ELSE NoObject,
      OwnerId |-> IF i % 5 = 0 THEN Undefined ELSE "u" \o ToString(i),
      Owner |-> IF i % 5 = 0 THEN NoObject ELSE [Name |-> "Owner"] ]

Fetched(n) == [i \in 1..n |-> Opp(i)]

\* Structured errors of the collaborators (spec section 6): body an array of
\* sub-errors, body an object with a message, or a flat message.
ArrayBody(msgs) == [kind |-> "array", items |-> msgs, message |-> Undefined]
ObjectBody(m) == [kind |-> "object", items |-> <<>>, message |-> m]
NoBody == [kind |-> "undefined", items |-> <<>>, message |-> Undefined]

Errors ==
    { [body |-> ArrayBody(<<"A", "B">>), message |-> Undefined],
      [body |-> ObjectBody("M"), message |-> Undefined],
      [body |-> NoBody, message |-> "F"] }

\* Every shape of error value reduceError may be handed: null or undefined,
\* a body that is a list of sub-errors (messages present, empty or missing),
\* a body object with or without a string message, a flat message or none.
Messages == {"A", "B", "", Undefined}

ErrorShapes ==
    {NoObject}
        \cup {[body |-> ArrayBody(items), message |-> Undefined] :
                 items \in UNION {[1..n -> Messages] : n \in 0..MaxMessages}}
        \cup {[body |-> ObjectBody(m), message |-> f] :
                 m \in {"M", "", Undefined}, f \in {"F", "", Undefined}}
        \cup {[body |-> NoBody, message |-> f] : f \in {"F", "", Undefined}}

\* A value handed to the wired function: { data, error }.
DataResult(n) == [kind |-> "data", data |-> Fetched(n), error |-> NoObject]
ErrorResult(e) == [kind |-> "error", data |-> <<>>, error |-> e]
EmptyResult == [kind |-> "empty", data |-> <<>>, error |-> NoObject]

\* Sizes of the record sets the read collaborator returns: none, one, a full
\* page, a page and one record, and MaxRecords.
DataLens == {0, 1, DefaultPageSize, DefaultPageSize + 1, MaxRecords}

WireResults ==
    {DataResult(n) : n \in DataLens}
        \cup {ErrorResult(e) : e \in Errors} \cup {EmptyResult}

\* A raw opportunity as returned by the controller of the table without
\* pagination, and the values handed to its wired function.
OppHierarchy(i) ==
    [ Id |-> ToString(i),
      AccountId |-> IF i % 2 = 1 THEN "a" \o ToString(i) ELSE Undefined,
      Account |-> IF i % 2 = 1 THEN [Name |-> "Account"] ELSE NoObject ]

FetchedHierarchy(n) == [i \in 1..n |-> OppHierarchy(i)]

DataResultHierarchy(n) ==
    [kind |-> "data", data |-> FetchedHierarchy(n), error |-> NoObject]

WireResultsHierarchy ==
    {DataResultHierarchy(n) : n \in DataLens}
        \cup {ErrorResult(e) : e \in Errors} \cup {EmptyResult}

\* ------------------------------------------------------- column spec
\* A JS string is the sequence of its characters.  The tokens the column
\* spec is made of, and the separators between them.
tokName ==
    <<"N", "a", "m", "e">>

tokBroker ==
    <<"B", "r", "o", "k", "e", "r">>

tokInsured ==
    <<"I", "n", "s", "u", "r", "e", "d">>

tokOwner ==
    <<"O", "w", "n", "e", "r">>

tokGrossPremium ==
    <<"X", "L", "P", "_", "G", "r", "o", "s", "s", "P", "r", "e", "m", "i", "u", "m", "A", "X", "A", "X", "L", "A", "m", "o", "u", "n", "t", "_", "_", "c">>

tokStageName ==
    <<"S", "t", "a", "g", "e", "N", "a", "m", "e">>

tokRelatedAccount ==
    <<"R", "e", "l", "a", "t", "e", "d", "A", "c", "c", "o", "u", "n", "t">>

tokAmount ==
    <<"A", "m", "o", "u", "n", "t">>

tokCloseDate ==
    <<"C", "l", "o", "s", "e", "D", "a", "t", "e">>

Comma == <<",">>
Blank == <<" ">>

Pieces ==
    {tokName,
     tokBroker,
     tokInsured,
     tokOwner,
     tokGrossPremium,
     tokStageName,
     tokRelatedAccount,
     tokAmount,
     tokCloseDate,
     Comma, Blank}

\* String.prototype.toLowerCase, over the letters of the tokens.
lowerChar(c) ==
    CASE c = "A" -> "a"
      [] c = "B" -> "b"
      [] c = "C" -> "c"
      [] c = "D" -> "d"
      [] c = "G" -> "g"
      [] c = "I" -> "i"
      [] c = "L" -> "l"
      [] c = "N" -> "n"
      [] c = "O" -> "o"
      [] c = "P" -> "p"
      [] c = "R" -> "r"
      [] c = "S" -> "s"
      [] c = "X" -> "x"
      [] OTHER -> c

toLowerCase(cs) == [i \in 1..Len(cs) |-> lowerChar(cs[i])]

\* String.prototype.includes.
includes(cs, sub) ==
    \E i \in 1..(Len(cs) - Len(sub) + 1) : SubSeq(cs, i, i + Len(sub) - 1) = sub

\* String.prototype.trim.
RECURSIVE trim(_)
trim(cs) ==
    IF cs = <<>> THEN cs
    ELSE IF Head(cs) = " " THEN trim(Tail(cs))
    ELSE IF cs[Len(cs)] = " " THEN trim(SubSeq(cs, 1, Len(cs) - 1))
    ELSE cs

\* String.prototype.split(','): one part more than there are commas.
RECURSIVE split(_)
split(cs) ==
    IF \A i \in 1..Len(cs) : cs[i] # ","
    THEN <<cs>>
    ELSE LET k == CHOOSE i \in 1..Len(cs) :
                     cs[i] = "," /\ \A j \in 1..(i - 1) : cs[j] # ","
         IN  <<SubSeq(cs, 1, k - 1)>> \o split(SubSeq(cs, k + 1, Len(cs)))

\* Array.prototype.filter(Boolean) over strings: the empty string is falsy.
RECURSIVE filterBoolean(_)
filterBoolean(parts) ==
    IF parts = <<>> THEN <<>>
    ELSE IF Head(parts) = <<>> THEN filterBoolean(Tail(parts))
    ELSE <<Head(parts)>> \o filterBoolean(Tail(parts))

\* The characters of a JS string as one string value.
RECURSIVE str(_)
str(cs) == IF cs = <<>> THEN "" ELSE Head(cs) \o str(Tail(cs))

RECURSIVE flatten(_)
flatten(ps) == IF ps = <<>> THEN <<>> ELSE Head(ps) \o flatten(Tail(ps))

\* The values the columns attribute may be given.
UndefinedValue == [type |-> "undefined"]
NullValue == [type |-> "null"]
StringValue(cs) == [type |-> "string", chars |-> cs]

ColumnSpecs ==
    {UndefinedValue, NullValue}
        \cup {StringValue(flatten(ps)) :
                 ps \in UNION {[1..n -> Pieces] : n \in 0..MaxPieces}}

\* 'Name,StageName,RelatedAccount' (line 54).
DefaultColumns == tokName \o Comma \o tokStageName \o Comma \o tokRelatedAccount

urlColumn(label, fieldName, nameField) ==
    [ label |-> label, fieldName |-> fieldName, type |-> "url",
      typeAttributes |-> [label |-> [fieldName |-> nameField],
                          target |-> "_blank"] ]

\* The body of parts.forEach (lines 58-125): the column of one token.
columnOf(field) ==
    IF field = tokName
    THEN urlColumn("Opportunity Name", "oppLink", "Name")
    ELSE IF field = tokBroker
    THEN urlColumn("Broker", "brokerLink", "BrokerName")
    ELSE IF field = tokInsured
    THEN urlColumn("Insured", "insuredLink", "InsuredName")
    ELSE IF field = tokOwner
    THEN urlColumn("Owner", "ownerLink", "OwnerName")
    ELSE IF field = tokGrossPremium
    THEN [ label |-> "Gross Premium Amount", fieldName |-> str(field),
           type |-> "currency", editable |-> TRUE ]
    ELSE [ label |-> str(field), fieldName |-> str(field),
           type |-> IF includes(toLowerCase(field), <<"d", "a", "t", "e">>)
                    THEN "date"
                    ELSE IF \/ includes(toLowerCase(field),
                                        <<"a", "m", "o", "u", "n", "t">>)
                            \/ includes(toLowerCase(field),
                                        <<"p", "r", "e", "m", "i", "u", "m">>)
                    THEN "currency"
                    ELSE "text",
           editable |-> TRUE ]

\* raw (lines 52-54) and parts (line 56) of buildColumns.
rawOf(value) ==
    IF value.type = "string" /\ trim(value.chars) # <<>>
    THEN value.chars ELSE DefaultColumns

partsOf(raw) ==
    LET pieces == split(raw)
    IN  filterBoolean([i \in 1..Len(pieces) |-> trim(pieces[i])])

\* buildColumns (lines 49-126): columnsDef is emptied, then one column is
\* pushed per part.
buildColumns(value) ==
    LET parts == partsOf(rawOf(value))
    IN  [i \in 1..Len(parts) |-> columnOf(parts[i])]

\* --------------------------------------------------------------- helpers
reduceError(error) ==
    IF error = NoObject THEN "Unknown error"
    ELSE IF error.body.kind = "array" THEN join(error.body.items)
    ELSE IF error.body.kind = "object" /\ error.body.message # Undefined
         THEN error.body.message
    ELSE IF Truthy(error.message) THEN error.message ELSE "Unknown error"

\* The forced-reload variant reads error.body unguarded: a TypeError for a
\* null or undefined error.
TypeError == "<TypeError>"

reduceErrorForced(error) ==
    IF error = NoObject THEN TypeError
    ELSE IF error.body.kind = "array" THEN join(error.body.items)
    ELSE IF error.body.kind = "object" /\ error.body.message # Undefined
         THEN error.body.message
    ELSE "Unknown error"

reduceErrorHierarchy(error) ==
    IF error = NoObject THEN "Unknown error"
    ELSE IF error.body.kind = "array" THEN join(error.body.items)
    ELSE IF error.body.kind = "object" /\ error.body.message # Undefined
         THEN error.body.message
    ELSE IF Truthy(error.message) THEN error.message ELSE "Unknown error"

Toast(title, message, variant) ==
    [title |-> title, message |-> message, variant |-> variant]

\* The data.map callback ({...opp, derived fields}), configurable variant.
enrich(opp) ==
    [ Id |-> opp.Id,
      XLP_BrokerName__c |-> opp.XLP_BrokerName__c,
      XLP_BrokerName__r |-> opp.XLP_BrokerName__r,
      XLP_ClientName__c |-> opp.XLP_ClientName__c,
      XLP_ClientName__r |-> opp.XLP_ClientName__r,
      OwnerId |-> opp.OwnerId,
      Owner |-> opp.Owner,
      oppLink |-> "/" \o opp.Id,
      brokerLink |-> IF Truthy(opp.XLP_BrokerName__c)
                     THEN "/" \o opp.XLP_BrokerName__c ELSE Null,
      BrokerName |-> IF opp.XLP_BrokerName__r # NoObject
                     THEN opp.XLP_BrokerName__r.Name ELSE Null,
      insuredLink |-> IF Truthy(opp.XLP_ClientName__c)
                      THEN "/" \o opp.XLP_ClientName__c ELSE Null,
      InsuredName |-> IF opp.XLP_ClientName__r # NoObject
                      THEN opp.XLP_ClientName__r.Name ELSE Null,
      ownerLink |-> IF Truthy(opp.OwnerId) THEN "/" \o opp.OwnerId ELSE Null,
      OwnerName |-> IF opp.Owner # NoObject THEN opp.Owner.Name ELSE Null ]

\* The data.map callback ({...opp, derived fields}), forced-reload variant.
enrichForced(opp) ==
    [ Id |-> opp.Id,
      XLP_BrokerName__c |-> opp.XLP_BrokerName__c,
      XLP_BrokerName__r |-> opp.XLP_BrokerName__r,
      XLP_ClientName__c |-> opp.XLP_ClientName__c,
      XLP_ClientName__r |-> opp.XLP_ClientName__r,
      OwnerId |-> opp.OwnerId,
      Owner |-> opp.Owner,
      oppLink |-> "/" \o opp.Id,
      accountLink |-> IF Truthy(opp.XLP_BrokerName__c)
                      THEN "/" \o opp.XLP_BrokerName__c ELSE Null,
      AccountName |-> IF opp.XLP_BrokerName__r # NoObject
                      THEN opp.XLP_BrokerName__r.Name ELSE "" ]

\* The data.map callback of the table without pagination.
enrichHierarchy(opp) ==
    [ Id |-> opp.Id,
      AccountId |-> opp.AccountId,
      Account |-> opp.Account,
      oppLink |-> "/" \o opp.Id,
      accountLink |-> IF Truthy(opp.AccountId)
                      THEN "/" \o opp.AccountId ELSE Null,
      AccountName |-> IF opp.Account # NoObject THEN opp.Account.Name ELSE Null ]

enrichAllHierarchy(data) == [i \in 1..Len(data) |-> enrichHierarchy(data[i])]

\* The whole mapped array of each variant: one display record per raw record.
enrichAll(data) == [i \in 1..Len(data) |-> enrich(data[i])]

enrichAllForced(data) == [i \in 1..Len(data) |-> enrichForced(data[i])]

\* ----------------------------------------------------------------- state
VARIABLES
    variant,        \* which component this instance is
    pageSize,       \* pageSize field
    pageNumber,     \* pageNumber field
    allData,        \* @track allData
    tableData,      \* @track tableData
    draftValues,    \* @track draftValues, as bound to the grid's draft-values
    isLoading,      \* @track isLoading
    wiredResult,    \* whether this.wiredResult holds a wired value
    loadRequests,   \* read requests the wire has in flight
    savePc,         \* handleSave invocations in flight, per await position
    toasts,         \* ShowToastEvents dispatched by the last step
    lastOp,         \* the handler that ran in the last step
    lastError,      \* the error the last step was handed, if any
    effects,        \* what the last step did to its collaborators, in order
    accountContextType, \* @api accountContextType
    columns,        \* _columns, the raw column spec
    columnsDef      \* @track columnsDef

vars == <<variant, pageSize, pageNumber, allData, tableData, draftValues,
          isLoading, wiredResult, loadRequests, savePc, toasts, lastOp,
          lastError, effects, accountContextType, columns, columnsDef>>

\* The awaits a handleSave invocation can be suspended at: the write, the
\* reload before and after the refetch has emitted to the wired function.
Awaits == {"write", "reload", "refreshed"}

NoSaves == [a \in Awaits |-> 0]

SavesInFlight == savePc["write"] + savePc["reload"] + savePc["refreshed"]

enter(pc, a) == [pc EXCEPT ![a] = @ + 1]

leave(pc, a) == [pc EXCEPT ![a] = @ - 1]

\* ---------------------------------------------------------------- getters
\* totalPages rounding down instead of up.
totalPagesFloor(len, size) ==
    IF len \div size = 0 THEN 1 ELSE len \div size

totalPagesOf(len, size) ==
    IF ceil(len, size) = 0 THEN 1 ELSE ceil(len, size)

totalPagesForcedOf(len, size) == ceil(len, size)

totalPages ==
    IF variant = Configurable
    THEN totalPagesOf(Len(allData), pageSize)
    ELSE totalPagesForcedOf(Len(allData), pageSize)

isFirstPage == pageNumber <= 1

isLastPage == pageNumber >= totalPages

hasData == Len(allData) > 0

\* updatePagination with the window starting one page too far.
updatePaginationShifted(data, page, size) ==
    LET start == page * size
        end == start + size
    IN  slice(data, start, end)

\* updatePagination(): the value assigned to tableData.
updatePagination(data, page, size) ==
    LET start == (page - 1) * size
        end == start + size
    IN  slice(data, start, end)

\* ------------------------------------------------------------------ Init
\* The component once it is in the page: the fields hold their initializers,
\* connectedCallback has built the columns of the attribute, which is not
\* set, and the wire has issued its first read.
Init ==
    /\ variant \in Components
    /\ pageSize = DefaultPageSize
    /\ pageNumber = 1
    /\ allData = <<>>
    /\ tableData = <<>>
    /\ draftValues = <<>>
    /\ isLoading = (variant # Hierarchy)
    /\ wiredResult = "undefined"
    /\ loadRequests = 1
    /\ savePc = NoSaves
    /\ toasts = <<>>
    /\ lastOp = "constructor"
    /\ lastError = NoObject
    /\ effects = <<>>
    /\ accountContextType = "Broker"
    /\ columns = UndefinedValue
    /\ columnsDef = IF variant = Configurable
                    THEN buildColumns(UndefinedValue) ELSE <<>>

\* ------------------------------------------------- configurable variant
\* The wired function body (lines 140-189).
wiredOpps(result) ==
    /\ wiredResult' = "result"
    /\ isLoading' = FALSE
    /\ IF result.kind = "data"
       THEN /\ allData' = enrichAll(result.data)
            /\ pageNumber' = 1
            /\ tableData' = updatePagination(allData', pageNumber', pageSize)
            /\ toasts' = <<>>
            /\ lastError' = NoObject
            /\ effects' = <<>>
       ELSE IF result.kind = "error"
       THEN /\ toasts' = <<Toast("Error loading opportunities",
                                reduceError(result.error), "error")>>
            /\ lastError' = result.error
            /\ effects' = <<"showToast">>
            /\ allData' = <<>>
            /\ tableData' = <<>>
            /\ UNCHANGED pageNumber
       ELSE /\ toasts' = <<>>
            /\ lastError' = NoObject
            /\ effects' = <<>>
            /\ UNCHANGED <<allData, tableData, pageNumber>>
    /\ lastOp' = "wiredOpps:" \o result.kind
    /\ UNCHANGED <<accountContextType, columns, columnsDef, variant, pageSize, draftValues>>

\* A reactive wire parameter changes: the wire issues a new read.
setConfig ==
    /\ loadRequests < MaxLoads
    /\ loadRequests' = loadRequests + 1
    /\ toasts' = <<>>
    /\ lastError' = NoObject
    /\ effects' = <<>>
    /\ lastOp' = "setConfig"
    /\ UNCHANGED <<accountContextType, columns, columnsDef, variant, pageSize, pageNumber, allData, tableData,
                   draftValues, isLoading, wiredResult, savePc>>

\* A read issued by the wire settles and is delivered to wiredOpps.
wireProvision ==
    /\ variant = Configurable
    /\ loadRequests > 0
    /\ loadRequests' = loadRequests - 1
    /\ \E result \in WireResults : wiredOpps(result)
    /\ UNCHANGED savePc

\* The refetch started by refreshApex emits a new value to wiredOpps.
wireRefresh ==
    /\ variant = Configurable
    /\ savePc["reload"] > 0
    /\ savePc' = enter(leave(savePc, "reload"), "refreshed")
    /\ \E result \in WireResults \ {EmptyResult} : wiredOpps(result)
    /\ UNCHANGED loadRequests

\* handleNext with the counter clamped at the last page.
handleNextClamped ==
    /\ variant = Configurable
    /\ pageNumber < totalPages + MaxOver
    /\ pageNumber' = Min(pageNumber + 1, totalPages)
    /\ tableData' = updatePagination(allData, pageNumber', pageSize)
    /\ toasts' = <<>>
    /\ lastError' = NoObject
    /\ effects' = <<>>
    /\ lastOp' = "handleNext"
    /\ UNCHANGED <<accountContextType, columns, columnsDef, variant, pageSize, allData, draftValues, isLoading,
                   wiredResult, loadRequests, savePc>>

handleNext ==
    /\ variant = Configurable
    /\ pageNumber < totalPages + MaxOver
    /\ pageNumber' = pageNumber + 1
    /\ tableData' = updatePagination(allData, pageNumber', pageSize)
    /\ toasts' = <<>>
    /\ lastError' = NoObject
    /\ effects' = <<>>
    /\ lastOp' = "handleNext"
    /\ UNCHANGED <<accountContextType, columns, columnsDef, variant, pageSize, allData, draftValues, isLoading,
                   wiredResult, loadRequests, savePc>>

handlePrev ==
    /\ variant = Configurable
    /\ pageNumber > 1 - MaxUnder
    /\ pageNumber' = pageNumber - 1
    /\ tableData' = updatePagination(allData, pageNumber', pageSize)
    /\ toasts' = <<>>
    /\ lastError' = NoObject
    /\ effects' = <<>>
    /\ lastOp' = "handlePrev"
    /\ UNCHANGED <<accountContextType, columns, columnsDef, variant, pageSize, allData, draftValues, isLoading,
                   wiredResult, loadRequests, savePc>>

\* An inline edit of the grid adds a pending draft (spec section 4.4,
\* recordDraft: upsert keyed by record and field).
Draft(id) == [Id |-> id, StageName |-> "Bound"]

upsert(drafts, d) ==
    IF \E i \in 1..Len(drafts) : drafts[i].Id = d.Id
    THEN [i \in 1..Len(drafts) |-> IF drafts[i].Id = d.Id THEN d ELSE drafts[i]]
    ELSE Append(drafts, d)

\* The edited row is one of the first MaxDrafts records and is on display.
recordDraft ==
    /\ \E k \in 1..Min(MaxDrafts, Len(draftValues) + 1) :
          /\ \E i \in 1..Len(tableData) : tableData[i].Id = ToString(k)
          /\ draftValues' = upsert(draftValues, Draft(ToString(k)))
          /\ draftValues' # draftValues
    /\ toasts' = <<>>
    /\ lastError' = NoObject
    /\ effects' = <<>>
    /\ lastOp' = "recordDraft"
    /\ UNCHANGED <<accountContextType, columns, columnsDef, variant, pageSize, pageNumber, allData, tableData,
                   isLoading, wiredResult, loadRequests, savePc>>

\* handleSave up to its first await (lines 233-238).
handleSave ==
    /\ variant = Configurable
    /\ draftValues # <<>>
    /\ SavesInFlight < MaxSaves
    /\ savePc' = enter(savePc, "write")
    /\ isLoading' = TRUE
    /\ toasts' = <<>>
    /\ lastError' = NoObject
    /\ effects' = <<>>
    /\ lastOp' = "handleSave"
    /\ UNCHANGED <<accountContextType, columns, columnsDef, variant, pageSize, pageNumber, allData, tableData,
                   draftValues, wiredResult, loadRequests>>

\* A success path that issues the reload and keeps the pending drafts.
writeResolvedKeepsDrafts ==
    /\ variant = Configurable
    /\ savePc["write"] > 0
    /\ savePc' = enter(leave(savePc, "write"), "reload")
    /\ toasts' = <<Toast("Success", "Changes saved successfully", "success")>>
    /\ lastError' = NoObject
    /\ effects' = <<"showToast", "refreshApex">>
    /\ lastOp' = "writeResolved"
    /\ UNCHANGED <<accountContextType, columns, columnsDef, variant, pageSize, pageNumber, allData, tableData,
                   isLoading, wiredResult, loadRequests, draftValues>>

\* updateOpportunities resolved: lines 240-250, up to the second await.
writeResolved ==
    /\ variant = Configurable
    /\ savePc["write"] > 0
    /\ savePc' = enter(leave(savePc, "write"), "reload")
    /\ toasts' = <<Toast("Success", "Changes saved successfully", "success")>>
    /\ draftValues' = <<>>
    /\ lastError' = NoObject
    /\ effects' = <<"showToast", "draftValues = []", "refreshApex">>
    /\ lastOp' = "writeResolved"
    /\ UNCHANGED <<accountContextType, columns, columnsDef, variant, pageSize, pageNumber, allData, tableData,
                   isLoading, wiredResult, loadRequests>>

\* A rejection handler without the finally block.
writeRejectedNoFinally ==
    /\ variant = Configurable
    /\ savePc["write"] > 0
    /\ savePc' = leave(savePc, "write")
    /\ \E e \in Errors :
          /\ toasts' = <<Toast("Error updating opportunities",
                               reduceError(e), "error")>>
          /\ lastError' = e
    /\ effects' = <<"showToast">>
    /\ lastOp' = "writeRejected"
    /\ UNCHANGED <<accountContextType, columns, columnsDef, variant, pageSize, pageNumber, allData, tableData,
                   draftValues, wiredResult, loadRequests, isLoading>>

\* updateOpportunities rejected: catch and finally (lines 252-262).
writeRejected ==
    /\ variant = Configurable
    /\ savePc["write"] > 0
    /\ savePc' = leave(savePc, "write")
    /\ \E e \in Errors :
          /\ toasts' = <<Toast("Error updating opportunities",
                               reduceError(e), "error")>>
          /\ lastError' = e
    /\ effects' = <<"showToast">>
    /\ isLoading' = FALSE
    /\ lastOp' = "writeRejected"
    /\ UNCHANGED <<accountContextType, columns, columnsDef, variant, pageSize, pageNumber, allData, tableData,
                   draftValues, wiredResult, loadRequests>>

\* refreshApex resolved: finally (lines 250, 260-262).
refreshResolved ==
    /\ variant = Configurable
    /\ \E a \in {"reload", "refreshed"} :
          /\ savePc[a] > 0
          /\ savePc' = leave(savePc, a)
    /\ isLoading' = FALSE
    /\ toasts' = <<>>
    /\ lastError' = NoObject
    /\ effects' = <<>>
    /\ lastOp' = "refreshResolved"
    /\ UNCHANGED <<accountContextType, columns, columnsDef, variant, pageSize, pageNumber, allData, tableData,
                   draftValues, wiredResult, loadRequests>>

\* refreshApex rejected: catch and finally (lines 250-262).
refreshRejected ==
    /\ variant = Configurable
    /\ \E a \in {"reload", "refreshed"} :
          /\ savePc[a] > 0
          /\ savePc' = leave(savePc, a)
    /\ \E e \in Errors :
          /\ toasts' = <<Toast("Error updating opportunities",
                               reduceError(e), "error")>>
          /\ lastError' = e
    /\ effects' = <<"showToast">>
    /\ isLoading' = FALSE
    /\ lastOp' = "refreshRejected"
    /\ UNCHANGED <<accountContextType, columns, columnsDef, variant, pageSize, pageNumber, allData, tableData,
                   draftValues, wiredResult, loadRequests>>

\* ------------------------------------------------- forced-reload variant
\* The wired function body (lines 331-347).
wiredOppsForced(result) ==
    /\ isLoading' = FALSE
    /\ IF result.kind = "data"
       THEN /\ allData' = enrichAllForced(result.data)
            /\ pageNumber' = 1
            /\ tableData' = updatePagination(allData', pageNumber', pageSize)
            /\ toasts' = <<>>
            /\ lastError' = NoObject
            /\ effects' = <<>>
       ELSE IF result.kind = "error"
       THEN /\ toasts' = <<Toast("Error", reduceErrorForced(result.error),
                                "error")>>
            /\ lastError' = result.error
            /\ effects' = <<"showToast">>
            /\ allData' = <<>>
            /\ UNCHANGED <<tableData, pageNumber>>
       ELSE /\ toasts' = <<>>
            /\ lastError' = NoObject
            /\ effects' = <<>>
            /\ UNCHANGED <<allData, tableData, pageNumber>>
    /\ lastOp' = "wiredOpps:" \o result.kind
    /\ UNCHANGED <<accountContextType, columns, columnsDef, variant, pageSize, draftValues, wiredResult>>

wireProvisionForced ==
    /\ variant = ForcedReload
    /\ loadRequests > 0
    /\ loadRequests' = loadRequests - 1
    /\ \E result \in WireResults : wiredOppsForced(result)
    /\ UNCHANGED savePc

handleNextForced ==
    /\ variant = ForcedReload
    /\ pageNumber < totalPages + MaxOver
    /\ pageNumber' = pageNumber + 1
    /\ tableData' = updatePagination(allData, pageNumber', pageSize)
    /\ toasts' = <<>>
    /\ lastError' = NoObject
    /\ effects' = <<>>
    /\ lastOp' = "handleNext"
    /\ UNCHANGED <<accountContextType, columns, columnsDef, variant, pageSize, allData, draftValues, isLoading,
                   wiredResult, loadRequests, savePc>>

handlePrevForced ==
    /\ variant = ForcedReload
    /\ pageNumber > 1 - MaxUnder
    /\ pageNumber' = pageNumber - 1
    /\ tableData' = updatePagination(allData, pageNumber', pageSize)
    /\ toasts' = <<>>
    /\ lastError' = NoObject
    /\ effects' = <<>>
    /\ lastOp' = "handlePrev"
    /\ UNCHANGED <<accountContextType, columns, columnsDef, variant, pageSize, allData, draftValues, isLoading,
                   wiredResult, loadRequests, savePc>>

\* handleSave up to its await (lines 383-387).
handleSaveForced ==
    /\ variant = ForcedReload
    /\ draftValues # <<>>
    /\ SavesInFlight < MaxSaves
    /\ savePc' = enter(savePc, "write")
    /\ isLoading' = TRUE
    /\ toasts' = <<>>
    /\ lastError' = NoObject
    /\ effects' = <<>>
    /\ lastOp' = "handleSave"
    /\ UNCHANGED <<accountContextType, columns, columnsDef, variant, pageSize, pageNumber, allData, tableData,
                   draftValues, wiredResult, loadRequests>>

\* updateOpportunities resolved: toast, then window.location.reload()
\* rebuilds the component from scratch (lines 388-391).
writeResolvedForced ==
    /\ variant = ForcedReload
    /\ savePc["write"] > 0
    /\ toasts' = <<Toast("Success", "Updated successfully", "success")>>
    /\ lastError' = NoObject
    /\ effects' = <<"showToast", "location.reload">>
    /\ pageNumber' = 1
    /\ allData' = <<>>
    /\ tableData' = <<>>
    /\ draftValues' = <<>>
    /\ isLoading' = TRUE
    /\ loadRequests' = 1
    /\ savePc' = NoSaves
    /\ lastOp' = "writeResolved"
    /\ UNCHANGED <<accountContextType, columns, columnsDef, variant, pageSize, wiredResult>>

\* updateOpportunities rejected: catch (lines 392-395).
writeRejectedForced ==
    /\ variant = ForcedReload
    /\ savePc["write"] > 0
    /\ savePc' = leave(savePc, "write")
    /\ \E e \in Errors :
          /\ toasts' = <<Toast("Error", reduceErrorForced(e), "error")>>
          /\ lastError' = e
    /\ effects' = <<"showToast">>
    /\ isLoading' = FALSE
    /\ lastOp' = "writeRejected"
    /\ UNCHANGED <<accountContextType, columns, columnsDef, variant, pageSize, pageNumber, allData, tableData,
                   draftValues, wiredResult, loadRequests>>

\* ------------------------------------------- table without pagination
\* The wired function body (lines 59-76).
wiredOpportunities(result) ==
    /\ wiredResult' = "result"
    /\ IF result.kind = "data"
       THEN /\ isLoading' = FALSE
            /\ tableData' = enrichAllHierarchy(result.data)
            /\ toasts' = <<>>
            /\ lastError' = NoObject
            /\ effects' = <<>>
       ELSE IF result.kind = "error"
       THEN /\ isLoading' = FALSE
            /\ tableData' = <<>>
            /\ toasts' = <<Toast("Error loading opportunities",
                                reduceErrorHierarchy(result.error), "error")>>
            /\ lastError' = result.error
            /\ effects' = <<"showToast">>
       ELSE /\ toasts' = <<>>
            /\ lastError' = NoObject
            /\ effects' = <<>>
            /\ UNCHANGED <<isLoading, tableData>>
    /\ lastOp' = "wiredOpportunities:" \o result.kind
    /\ UNCHANGED <<accountContextType, columns, columnsDef, variant, pageSize, pageNumber, allData, draftValues>>

wireProvisionHierarchy ==
    /\ variant = Hierarchy
    /\ loadRequests > 0
    /\ loadRequests' = loadRequests - 1
    /\ \E result \in WireResultsHierarchy : wiredOpportunities(result)
    /\ UNCHANGED savePc

\* The refetch started by refreshApex emits a new value to the wired function.
wireRefreshHierarchy ==
    /\ variant = Hierarchy
    /\ savePc["reload"] > 0
    /\ savePc' = enter(leave(savePc, "reload"), "refreshed")
    /\ \E result \in WireResultsHierarchy \ {EmptyResult} :
          wiredOpportunities(result)
    /\ UNCHANGED loadRequests

\* handleSave up to its first await (lines 82-88).
handleSaveHierarchy ==
    /\ variant = Hierarchy
    /\ draftValues # <<>>
    /\ SavesInFlight < MaxSaves
    /\ savePc' = enter(savePc, "write")
    /\ isLoading' = TRUE
    /\ toasts' = <<>>
    /\ lastError' = NoObject
    /\ effects' = <<>>
    /\ lastOp' = "handleSave"
    /\ UNCHANGED <<accountContextType, columns, columnsDef, variant, pageSize, pageNumber, allData, tableData,
                   draftValues, wiredResult, loadRequests>>

\* updateOpportunities resolved: lines 90-94, up to the second await.
writeResolvedHierarchy ==
    /\ variant = Hierarchy
    /\ savePc["write"] > 0
    /\ savePc' = enter(leave(savePc, "write"), "reload")
    /\ toasts' = <<Toast("Success", "Opportunities updated", "success")>>
    /\ draftValues' = <<>>
    /\ lastError' = NoObject
    /\ effects' = <<"showToast", "draftValues = []", "refreshApex">>
    /\ lastOp' = "writeResolved"
    /\ UNCHANGED <<accountContextType, columns, columnsDef, variant, pageSize, pageNumber, allData, tableData,
                   isLoading, wiredResult, loadRequests>>

\* A rejection handler that discards the pending drafts.
writeRejectedHierarchyClearsDrafts ==
    /\ variant = Hierarchy
    /\ savePc["write"] > 0
    /\ savePc' = leave(savePc, "write")
    /\ \E e \in Errors :
          /\ toasts' = <<Toast("Error updating opportunities",
                               reduceErrorHierarchy(e), "error")>>
          /\ lastError' = e
    /\ effects' = <<"showToast">>
    /\ isLoading' = FALSE
    /\ draftValues' = <<>>
    /\ lastOp' = "writeRejected"
    /\ UNCHANGED <<accountContextType, columns, columnsDef, variant, pageSize, pageNumber, allData, tableData,
                   wiredResult, loadRequests>>

\* updateOpportunities rejected: catch and finally (lines 95-99).
writeRejectedHierarchy ==
    /\ variant = Hierarchy
    /\ savePc["write"] > 0
    /\ savePc' = leave(savePc, "write")
    /\ \E e \in Errors :
          /\ toasts' = <<Toast("Error updating opportunities",
                               reduceErrorHierarchy(e), "error")>>
          /\ lastError' = e
    /\ effects' = <<"showToast">>
    /\ isLoading' = FALSE
    /\ lastOp' = "writeRejected"
    /\ UNCHANGED <<accountContextType, columns, columnsDef, variant, pageSize, pageNumber, allData, tableData,
                   draftValues, wiredResult, loadRequests>>

\* refreshApex resolved: finally (lines 94, 97-99).
refreshResolvedHierarchy ==
    /\ variant = Hierarchy
    /\ \E a \in {"reload", "refreshed"} :
          /\ savePc[a] > 0
          /\ savePc' = leave(savePc, a)
    /\ isLoading' = FALSE
    /\ toasts' = <<>>
    /\ lastError' = NoObject
    /\ effects' = <<>>
    /\ lastOp' = "refreshResolved"
    /\ UNCHANGED <<accountContextType, columns, columnsDef, variant, pageSize, pageNumber, allData, tableData,
                   draftValues, wiredResult, loadRequests>>

\* refreshApex rejected: catch and finally (lines 94-99).
refreshRejectedHierarchy ==
    /\ variant = Hierarchy
    /\ \E a \in {"reload", "refreshed"} :
          /\ savePc[a] > 0
          /\ savePc' = leave(savePc, a)
    /\ \E e \in Errors :
          /\ toasts' = <<Toast("Error updating opportunities",
                               reduceErrorHierarchy(e), "error")>>
          /\ lastError' = e
    /\ effects' = <<"showToast">>
    /\ isLoading' = FALSE
    /\ lastOp' = "refreshRejected"
    /\ UNCHANGED <<accountContextType, columns, columnsDef, variant, pageSize, pageNumber, allData, tableData,
                   draftValues, wiredResult, loadRequests>>

\* --------------------------------------------------------- specification
Next ==
    \/ setConfig
    \/ recordDraft
    \/ wireProvision
    \/ wireRefresh
    \/ handleNext
    \/ handlePrev
    \/ handleSave
    \/ writeResolved
    \/ writeRejected
    \/ refreshResolved
    \/ refreshRejected
    \/ wireProvisionForced
    \/ handleNextForced
    \/ handlePrevForced
    \/ handleSaveForced
    \/ writeResolvedForced
    \/ writeRejectedForced
    \/ wireProvisionHierarchy
    \/ wireRefreshHierarchy
    \/ handleSaveHierarchy
    \/ writeResolvedHierarchy
    \/ writeRejectedHierarchy
    \/ refreshResolvedHierarchy
    \/ refreshRejectedHierarchy

Spec == Init /\ [][Next]_vars

\* The host disables the navigation controls with isFirstPage / isLastPage
\* and the save trigger while isLoading is true (spec sections 4.3, 4.4).
guardedNext == ~isLastPage /\ (handleNext \/ handleNextForced)

guardedPrev == ~isFirstPage /\ (handlePrev \/ handlePrevForced)

guardedSave ==
    ~isLoading /\ (handleSave \/ handleSaveForced \/ handleSaveHierarchy)

NextGuarded ==
    \/ setConfig
    \/ recordDraft
    \/ wireProvision
    \/ wireRefresh
    \/ guardedNext
    \/ guardedPrev
    \/ guardedSave
    \/ writeResolved
    \/ writeRejected
    \/ refreshResolved
    \/ refreshRejected
    \/ wireProvisionForced
    \/ writeResolvedForced
    \/ writeRejectedForced
    \/ wireProvisionHierarchy
    \/ wireRefreshHierarchy
    \/ writeResolvedHierarchy
    \/ writeRejectedHierarchy
    \/ refreshResolvedHierarchy
    \/ refreshRejectedHierarchy

SpecGuarded == Init /\ [][NextGuarded]_vars

\* Pagination as a pure function of (allData, pageSize): every record set
\* of up to MaxRecords records under every page size up to MaxPageSize, as
\* left by a successful load, then stepped through with the guarded controls.
InitPaging ==
    /\ variant = Configurable
    /\ pageSize \in 1..MaxPageSize
    /\ pageNumber = 1
    /\ \E n \in 0..MaxRecords : allData = enrichAll(Fetched(n))
    /\ tableData = updatePagination(allData, pageNumber, pageSize)
    /\ draftValues = <<>>
    /\ isLoading = FALSE
    /\ wiredResult = "result"
    /\ loadRequests = 0
    /\ savePc = NoSaves
    /\ toasts = <<>>
    /\ lastOp = "wiredOpps:data"
    /\ lastError = NoObject
    /\ effects = <<>>
    /\ accountContextType = "Broker"
    /\ columns = UndefinedValue
    /\ columnsDef = IF variant = Configurable
                    THEN buildColumns(UndefinedValue) ELSE <<>>

pagingNext == ~isLastPage /\ handleNext

pagingPrev == ~isFirstPage /\ handlePrev

NextPaging == pagingNext \/ pagingPrev

SpecPaging == InitPaging /\ [][NextPaging]_vars

\* The write and the reload of every save in flight eventually settle: an
\* awaited promise that is pending stays pending until it resolves or rejects.
settleWrite ==
    \/ writeResolved
    \/ writeRejected
    \/ writeResolvedHierarchy
    \/ writeRejectedHierarchy

settleReload ==
    \/ refreshResolved
    \/ refreshRejected
    \/ refreshResolvedHierarchy
    \/ refreshRejectedHierarchy

SpecFair ==
    Init /\ [][Next]_vars /\ WF_vars(settleWrite) /\ WF_vars(settleReload)

\* ------------------------------------------------------ column building
\* A table that replaces its columns by appending the rebuilt ones.
setColumnsToAccumulating(value) ==
    /\ variant = Configurable
    /\ columns' = value
    /\ columnsDef' = columnsDef \o buildColumns(value)
    /\ toasts' = <<>>
    /\ lastError' = NoObject
    /\ effects' = <<>>
    /\ lastOp' = "set columns"
    /\ UNCHANGED <<accountContextType, variant, pageSize, pageNumber, allData, tableData,
                   draftValues, isLoading, wiredResult, loadRequests, savePc>>

\* set columns(value) (lines 34-38).
setColumnsTo(value) ==
    /\ variant = Configurable
    /\ columns' = value
    /\ columnsDef' = buildColumns(value)
    /\ toasts' = <<>>
    /\ lastError' = NoObject
    /\ effects' = <<>>
    /\ lastOp' = "set columns"
    /\ UNCHANGED <<accountContextType, variant, pageSize, pageNumber, allData, tableData,
                   draftValues, isLoading, wiredResult, loadRequests, savePc>>

setColumns == \E value \in ColumnSpecs : setColumnsTo(value)

\* connectedCallback (lines 44-46); it runs each time the component is
\* inserted in the page.
connectedCallback ==
    /\ variant = Configurable
    /\ columnsDef' = buildColumns(columns)
    /\ toasts' = <<>>
    /\ lastError' = NoObject
    /\ effects' = <<>>
    /\ lastOp' = "connectedCallback"
    /\ UNCHANGED <<accountContextType, columns, variant, pageSize, pageNumber, allData, tableData,
                   draftValues, isLoading, wiredResult, loadRequests, savePc>>

\* buildColumns on its own: a configurable table is constructed in either
\* account context, its columns attribute is given a value if the page
\* supplies one, and it is connected.
InitColumns ==
    /\ variant = Configurable
    /\ accountContextType \in {"Broker", "Insured"}
    /\ columns = UndefinedValue
    /\ columnsDef = <<>>
    /\ pageSize = DefaultPageSize
    /\ pageNumber = 1
    /\ allData = <<>>
    /\ tableData = <<>>
    /\ draftValues = <<>>
    /\ isLoading = TRUE
    /\ wiredResult = "undefined"
    /\ loadRequests = 0
    /\ savePc = NoSaves
    /\ toasts = <<>>
    /\ lastOp = "constructor"
    /\ lastError = NoObject
    /\ effects = <<>>

firstSetColumns == lastOp = "constructor" /\ setColumns

NextColumns == firstSetColumns \/ connectedCallback

SpecColumns == InitColumns /\ [][NextColumns]_vars

\* The whole configurable table, with a page that changes the columns
\* attribute between an unset value and a spec with a repeated token and
\* blank tokens.
SampleSpecs ==
    { UndefinedValue,
      StringValue(tokName \o Comma \o Blank \o Comma \o tokName) }

setColumnsSampled == \E value \in SampleSpecs : setColumnsTo(value)

InitTable == Init /\ variant = Configurable

NextTable ==
    \/ setColumnsSampled
    \/ connectedCallback
    \/ recordDraft
    \/ wireProvision
    \/ wireRefresh
    \/ handleNext
    \/ handlePrev
    \/ handleSave
    \/ writeResolved
    \/ writeRejected
    \/ refreshResolved
    \/ refreshRejected

SpecTable == InitTable /\ [][NextTable]_vars

\* ---------------------------------------------------- error flattening
\* reduceError on its own: a component is handed an error value of any shape
\* and flattens it for the notification it emits.
reduceErrorOf(v, error) ==
    IF v = Configurable THEN reduceError(error)
    ELSE IF v = ForcedReload THEN reduceErrorForced(error)
    ELSE reduceErrorHierarchy(error)

InitReduce == Init

reduceStep ==
    /\ \E e \in ErrorShapes :
          /\ lastError' = e
          /\ IF reduceErrorOf(variant, e) = TypeError
             THEN toasts' = <<>> /\ effects' = <<"throw">>
             ELSE /\ toasts' = <<Toast("Error", reduceErrorOf(variant, e),
                                       "error")>>
                  /\ effects' = <<"showToast">>
    /\ lastOp' = "reduceError"
    /\ UNCHANGED <<accountContextType, columns, columnsDef, variant, pageSize,
                   pageNumber, allData, tableData, draftValues, isLoading,
                   wiredResult, loadRequests, savePc>>

NextReduce == reduceStep

SpecReduce == InitReduce /\ [][NextReduce]_vars

\* ------------------------------------------------------------ properties
\* The records of allData at 0-based positions lo (included) to hi
\* (excluded), truncated at the end of allData.
Window(lo, hi) ==
    LET top == Min(hi, Len(allData))
    IN  IF lo >= top THEN <<>> ELSE [i \in 1..(top - lo) |-> allData[lo + i]]

\* C1: in every reachable state of the configurable table with
\* pageNumber >= 1, tableData is the sub-sequence of allData at 0-based
\* positions (pageNumber-1)*pageSize up to but excluding pageNumber*pageSize.
C1_TableDataIsPageWindow ==
    (variant = Configurable /\ pageNumber >= 1)
        => tableData = Window((pageNumber - 1) * pageSize, pageNumber * pageSize)

C1_Witness ==
    /\ variant = Configurable
    /\ lastOp = "handleNext"
    /\ pageNumber = 3
    /\ Len(allData) > 2 * pageSize
    /\ Len(tableData) \in 1..(pageSize - 1)

\* C2: once handlePrev has brought pageNumber below 1 (0, -1, -2, ...),
\* tableData is the empty sequence, whatever the length of allData.
C2_BelowFirstPageEmpty ==
    (variant = Configurable /\ pageNumber < 1) => tableData = <<>>

\* C3: handleNext increments pageNumber by exactly 1 with no upper clamp,
\* and in every state where pageNumber > totalPages, tableData is the empty
\* sequence and isLastPage is true.
C3_NextUnclamped ==
    /\ [](variant = Configurable /\ pageNumber > totalPages
            => tableData = <<>> /\ isLastPage)
    /\ [][variant = Configurable /\ lastOp' = "handleNext"
            => pageNumber' = pageNumber + 1]_vars

C3_Witness ==
    /\ variant = Configurable
    /\ lastOp = "handleNext"
    /\ Len(allData) > 2 * pageSize
    /\ pageNumber = totalPages + 1
    /\ tableData = <<>>
    /\ isLastPage

\* C4: if handleNext is invoked only when isLastPage is false and handlePrev
\* only when isFirstPage is false, then 1 <= pageNumber <= totalPages in
\* every reachable state, also after a failed load that follows navigation.
C4_PageInRange ==
    variant = Configurable => (1 <= pageNumber /\ pageNumber <= totalPages)

\* C5: every load completion that replaces allData, with the fetched records
\* on success or with the empty set on failure, leaves pageNumber = 1, and
\* pageNumber changes otherwise only through handleNext and handlePrev.
C5_LoadResetsPage ==
    /\ [](variant = Configurable
            /\ lastOp \in {"wiredOpps:data", "wiredOpps:error"}
            => pageNumber = 1)
    /\ [][variant = Configurable /\ pageNumber' # pageNumber
            => lastOp' \in {"handleNext", "handlePrev",
                            "wiredOpps:data", "wiredOpps:error"}]_vars

\* C6: when the read collaborator fails, in both table variants and whatever
\* page was displayed, allData and tableData are empty afterwards and exactly
\* one error notification carrying reduceError(error) has been emitted.
C6_LoadErrorClears ==
    lastOp = "wiredOpps:error"
        => /\ allData = <<>>
           /\ tableData = <<>>
           /\ Len(toasts) = 1
           /\ toasts[1].variant = "error"
           /\ toasts[1].message \in
                 {IF variant = Configurable
                  THEN reduceError(e) ELSE reduceErrorForced(e) : e \in Errors}

\* The pages 1..p, each as updatePagination computes it, one after another.
RECURSIVE ConcatPages(_)
ConcatPages(p) ==
    IF p < 1 THEN <<>>
    ELSE ConcatPages(p - 1) \o updatePagination(allData, p, pageSize)

RECURSIVE SumPageLens(_)
SumPageLens(p) ==
    IF p < 1 THEN 0
    ELSE SumPageLens(p - 1) + Len(updatePagination(allData, p, pageSize))

\* C7: for every allData of length N and every pageSize P > 0, the pages
\* shown while stepping pageNumber from 1 to totalPages concatenate to
\* exactly allData: the pages before the current one followed by tableData
\* are the first records of allData, the page lengths sum to N, and no
\* record is lost or duplicated.
C7_PagesPartition ==
    /\ pageNumber \in 1..totalPages
          => ConcatPages(pageNumber - 1) \o tableData
                = Window(0, pageNumber * pageSize)
    /\ ConcatPages(totalPages) = allData
    /\ SumPageLens(totalPages) = Len(allData)

C7_Witness ==
    /\ lastOp = "handleNext"
    /\ Len(allData) = 25
    /\ pageSize = 10
    /\ totalPages = 3
    /\ pageNumber = 3
    /\ Len(tableData) = 5

\* C8: in every reachable state of every paginated variant, totalPages is
\* ceil(|allData| / pageSize) with a floor of 1, so totalPages >= 1; with
\* allData empty and pageNumber = 1, isFirstPage and isLastPage both hold.
C8_TotalPagesFloor ==
    variant \in Variants =>
    /\ totalPages >= 1
    /\ totalPages = Max(1, CHOOSE k \in 0..Len(allData) :
                              /\ k * pageSize >= Len(allData)
                              /\ (k - 1) * pageSize < Len(allData))
    /\ (allData = <<>> /\ pageNumber = 1) => (isFirstPage /\ isLastPage)

\* C9: from the invocation of handleSave until that save settles, isLoading
\* is true in every intermediate state, whatever load completions are
\* delivered to wiredOpps in between.
C9_LoadingWhileSaving ==
    (variant = Configurable /\ SavesInFlight > 0) => isLoading

\* C10: if the host triggers handleSave only while isLoading is false, at
\* most one save is in flight in every reachable state.
C10_OneSaveInFlight ==
    variant = Configurable => SavesInFlight <= 1

\* The components whose handleSave reloads through refreshApex, and the steps
\* in which an invocation of handleSave runs its finally block.
Refreshing == {Configurable, Hierarchy}

Finished == {"writeRejected", "refreshResolved", "refreshRejected"}

\* C11: provided the write and the reload each eventually settle, every
\* invocation of handleSave eventually ends, and it ends with isLoading =
\* false whether the write succeeded, the write failed or the reload threw.
C11_SaveEndsNotLoading ==
    /\ [](variant \in Refreshing /\ lastOp \in Finished => ~isLoading)
    /\ (variant \in Refreshing /\ lastOp = "handleSave")
          ~> (lastOp \in Finished /\ ~isLoading)

C11_Witness ==
    /\ variant = Configurable
    /\ lastOp = "refreshRejected"
    /\ SavesInFlight = 0
    /\ ~isLoading

\* C12: when the write succeeds, handleSave emits the success notification,
\* empties draftValues and issues the reload, in that order and only once the
\* write has resolved; no other step issues a reload; the value the reload
\* delivers replaces the records on display with the freshly loaded ones.
C12_SuccessOrder ==
    /\ [][(variant \in Refreshing /\ lastOp' = "writeResolved") =>
            /\ savePc["write"] > 0
            /\ savePc'["write"] = savePc["write"] - 1
            /\ effects' = <<"showToast", "draftValues = []", "refreshApex">>
            /\ Len(toasts') = 1
            /\ toasts'[1].variant = "success"
            /\ draftValues' = <<>>
            /\ savePc'["reload"] = savePc["reload"] + 1]_vars
    /\ [][(variant \in Refreshing /\ savePc'["reload"] > savePc["reload"]) =>
            lastOp' = "writeResolved"]_vars
    /\ [][(variant = Configurable /\ savePc'["refreshed"] > savePc["refreshed"]
            /\ lastOp' = "wiredOpps:data") =>
            \E n \in DataLens :
               /\ allData' = enrichAll(Fetched(n))
               /\ pageNumber' = 1
               /\ tableData' = slice(allData', 0, pageSize)]_vars
    /\ [][(variant = Hierarchy /\ savePc'["refreshed"] > savePc["refreshed"]
            /\ lastOp' = "wiredOpportunities:data") =>
            \E n \in DataLens :
               tableData' = enrichAllHierarchy(FetchedHierarchy(n))]_vars

C12_Witness ==
    /\ variant = Configurable
    /\ lastOp = "wiredOpps:data"
    /\ savePc["refreshed"] = 1
    /\ draftValues = <<>>
    /\ Len(allData) = DefaultPageSize + 1
    /\ Len(tableData) = DefaultPageSize

\* C13: when the write is rejected, handleSave leaves the pending drafts
\* exactly as they were, emits exactly one notification, an error one whose
\* message is reduceError of the rejection, emits no success notification and
\* issues no reload.
C13_RejectionKeepsDrafts ==
    [][(variant \in Refreshing /\ lastOp' = "writeRejected") =>
        /\ draftValues' = draftValues
        /\ Len(toasts') = 1
        /\ toasts'[1].variant = "error"
        /\ lastError' \in Errors
        /\ toasts'[1].message =
              IF variant = Configurable THEN reduceError(lastError')
              ELSE reduceErrorHierarchy(lastError')
        /\ effects' = <<"showToast">>
        /\ savePc'["reload"] = savePc["reload"]
        /\ savePc'["refreshed"] = savePc["refreshed"]
        /\ loadRequests' = loadRequests]_vars

C13_Witness ==
    /\ variant = Hierarchy
    /\ lastOp = "writeRejected"
    /\ Len(draftValues) = MaxDrafts
    /\ Len(toasts) = 1
    /\ toasts[1].message = "A, B"

\* C14: for every component and every error value (null or undefined, a list
\* body of any length, a body object with a message, a flat message, none of
\* these, messages possibly empty), reduceError never throws and returns a
\* non-empty string: the sub-error messages joined with ", ", the single
\* message as it is, otherwise "Unknown error".
C14_ReduceErrorTotal ==
    lastOp = "reduceError" =>
        /\ effects # <<"throw">>
        /\ Len(toasts) = 1
        /\ toasts[1].message # ""
        /\ toasts[1].message =
              IF lastError = NoObject THEN "Unknown error"
              ELSE IF lastError.body.kind = "array"
                   THEN join(lastError.body.items)
              ELSE IF lastError.body.kind = "object"
                      /\ lastError.body.message # Undefined
                   THEN lastError.body.message
              ELSE IF Truthy(lastError.message) THEN lastError.message
              ELSE "Unknown error"

\* The steps that end with a call of buildColumns, the column specs the
\* default is substituted for, and the tokens columnsDef is built from.
Built == lastOp \in {"set columns", "connectedCallback"}

IsBlank(value) == value.type # "string" \/ trim(value.chars) = <<>>

Tokens == partsOf(rawOf(columns))

\* The default list of spec section 4.1.
DocumentedDefault ==
    partsOf(tokName \o Comma \o Blank \o tokStageName \o Comma \o Blank
            \o tokRelatedAccount \o Comma \o Blank \o tokAmount
            \o Comma \o Blank \o tokCloseDate)

\* C15: a column spec that is missing, null, empty or only whitespace yields
\* exactly the columns of the default list Name, StageName, RelatedAccount,
\* Amount, CloseDate, in that order.
C15_DefaultColumns ==
    (Built /\ IsBlank(columns)) =>
        /\ Len(columnsDef) = Len(DocumentedDefault)
        /\ \A i \in {1, 2, 4, 5} : columnsDef[i] = columnOf(DocumentedDefault[i])

\* C16: the token RelatedAccount yields a url column that is not editable,
\* labelled "Insured Account" when accountContextType is Insured and "Broker
\* Account" otherwise, bound to the derived link and name fields; it never
\* yields a plain editable text column named RelatedAccount.
C16_RelatedAccountColumn ==
    Built =>
        \A i \in 1..Len(Tokens) :
            Tokens[i] = tokRelatedAccount =>
                /\ i \in DOMAIN columnsDef
                /\ columnsDef[i].type = "url"
                /\ columnsDef[i].label =
                      IF accountContextType = "Insured"
                      THEN "Insured Account" ELSE "Broker Account"
                /\ "editable" \notin DOMAIN columnsDef[i]
                /\ "typeAttributes" \in DOMAIN columnsDef[i]
                /\ columnsDef[i].fieldName # "RelatedAccount"

\* C17: for every input string, those made only of commas and whitespace
\* included, buildColumns ends with a non-empty columnsDef: the default list
\* is substituted when the input holds no usable token.
C17_ColumnsNeverEmpty ==
    Built =>
        /\ columnsDef # <<>>
        /\ (columns.type = "string"
              /\ filterBoolean([i \in 1..Len(split(columns.chars)) |->
                                  trim(split(columns.chars)[i])]) = <<>>)
             => columnsDef = buildColumns(UndefinedValue)

\* C18: after any sequence of events columnsDef is the ordered one-to-one
\* image of the non-empty trimmed tokens of the current column spec (the
\* default list standing for a spec that is not set): as many columns as
\* tokens, in token order, repeated tokens kept, nothing left over from
\* earlier builds; loads, navigation and saves leave columnsDef unchanged.
C18_ColumnsMirrorSpec ==
    /\ [](/\ Len(columnsDef) = Len(Tokens)
          /\ \A i \in 1..Len(Tokens) : columnsDef[i] = columnOf(Tokens[i]))
    /\ [][lastOp' \notin {"set columns", "connectedCallback"} =>
             columnsDef' = columnsDef]_vars

C18_Witness ==
    /\ columns = StringValue(tokName \o Comma \o Blank \o Comma \o tokName)
    /\ Len(columnsDef) = 2
    /\ columnsDef[1] = columnsDef[2]
    /\ lastOp = "refreshResolved"
    /\ Len(allData) = MaxRecords

\* C19: enrichment maps the loaded records one to one and in order: allData
\* has the length and order of the raw records, every raw field is carried
\* over, and a derived link whose identifier is missing and a derived name
\* whose relationship object is missing are null (never undefined, absent or
\* the empty string).
C19_EnrichmentTotal ==
    (variant \in Variants /\ lastOp = "wiredOpps:data") =>
        \E n \in DataLens :
            /\ Len(allData) = n
            /\ \A i \in 1..n :
                  LET raw == Fetched(n)[i]
                      rec == allData[i]
                  IN  /\ \A f \in DOMAIN raw : rec[f] = raw[f]
                      /\ rec.oppLink = "/" \o raw.Id
                      /\ variant = Configurable =>
                            /\ ~Truthy(raw.XLP_BrokerName__c) =>
                                  rec.brokerLink = Null
                            /\ raw.XLP_BrokerName__r = NoObject =>
                                  rec.BrokerName = Null
                            /\ ~Truthy(raw.XLP_ClientName__c) =>
                                  rec.insuredLink = Null
                            /\ raw.XLP_ClientName__r = NoObject =>
                                  rec.InsuredName = Null
                            /\ ~Truthy(raw.OwnerId) => rec.ownerLink = Null
                            /\ raw.Owner = NoObject => rec.OwnerName = Null
                      /\ variant = ForcedReload =>
                            /\ ~Truthy(raw.XLP_BrokerName__c) =>
                                  rec.accountLink = Null
                            /\ raw.XLP_BrokerName__r = NoObject =>
                                  rec.AccountName = Null

\* C20: every invocation of handleSave emits exactly one notification, a
\* success or an error one and never both, on every path, the one where the
\* write succeeds and the reload then fails included: the steps that settle
\* the write emit one notification, the steps that settle the reload emit
\* none, and no error notification follows the clearing of the drafts.
C20_OneNotificationPerSave ==
    variant \in Refreshing =>
        /\ lastOp \in {"writeResolved", "writeRejected"} => Len(toasts) = 1
        /\ lastOp \in {"refreshResolved", "refreshRejected"} => toasts = <<>>

====
